---- MODULE Spec2Model ----
(***************************************************************************)
(* ProbabilityDensityFunction (src/assignment3/pdfs.py): a density given   *)
(* on a grid, interpolated by a spline, with point evaluation, interval    *)
(* probability and inverse-CDF sampling, plus the interactive driver.      *)
(*                                                                         *)
(* Numbers are exact rationals.  A scalar is [num, den] in lowest terms    *)
(* with den > 0; den = 0 stands for a non-finite float (inf or nan, as     *)
(* numpy produces on division by zero).  An array is [num, den]: integer   *)
(* numerators over one common denominator.                                 *)
(*                                                                         *)
(* Grids are the unit grids x = 0, 1, .., m-1, for which linspace(x[0],    *)
(* x[-1], len(x)) is x itself.  On them the spline primitive               *)
(* (InterpolatedUnivariateSpline, s = 0, FITPACK knot placement) is a      *)
(* linear map of the data, tabulated exactly in SplineTable; quad is       *)
(* taken as exact on the piecewise polynomial, so an area that is zero in  *)
(* exact arithmetic is the float 0.0.                                      *)
(***************************************************************************)
EXTENDS Integers, Sequences, FiniteSets, TLC

\* ---- bounds ----
MaxLen == 4          \* longest x or y array
MaxY == 1            \* y values range over -1 .. MaxY
MaxOrder == 3        \* spline_order ranges over 1 .. MaxOrder
MaxCount == 2        \* num_samples ranges over -1 .. MaxCount
UDen == 3            \* uniform draws are 0/UDen .. (UDen-1)/UDen
NumCallers == 2      \* callers sharing one instance
DriverPoints == 4    \* grid size standing for linspace(0, 10, 100)

\* ---- program constants ----
DefaultK == 3        \* k of InterpolatedUnivariateSpline(x, y) when not given

VARIABLES
  phase,     \* "new", "constructed" or "failed": progress of __init__
  self,      \* the instance: [x, y, y_normalized, spline], or NoObject
  ctor,      \* outcome of __init__: arguments, error, primitive calls made
  callers,   \* the callers that use the instance
  pc,        \* per caller: "idle", a position inside sample, or "done"
  loc,       \* per caller: the locals of a sample call in progress
  res,       \* the outcome of the call that has just completed, or NoResult
  dpc,       \* driver: "off", "menu", a prompt, "exited" or "crashed"
  dloc,      \* driver: the interval start read at the first prompt of choice 2
  report     \* driver: what the last completed menu iteration logged

vars == <<phase, self, ctor, callers, pc, loc, res, dpc, dloc, report>>

\* ---- exact arithmetic ----
Abs(n) == IF n < 0 THEN -n ELSE n

Sign(n) == IF n < 0 THEN -1 ELSE IF n > 0 THEN 1 ELSE 0

RECURSIVE GCD(_, _)
GCD(a, b) == IF b = 0 THEN a ELSE GCD(b, a % b)

\* the float n/d; division by zero gives inf, -inf or nan (den = 0)
Rat(n, d) ==
  IF d = 0 THEN [num |-> Sign(n), den |-> 0]
  ELSE LET g == GCD(Abs(n), Abs(d))
       IN [num |-> Sign(d) * (n \div g), den |-> Abs(d) \div g]

IsFinite(r) == r.den # 0

RatLt(r, s) == IsFinite(r) /\ IsFinite(s) /\ r.num * s.den < s.num * r.den

RatLe(r, s) == IsFinite(r) /\ IsFinite(s) /\ r.num * s.den <= s.num * r.den

RECURSIVE SumTo(_, _)
SumTo(f, n) == IF n = 0 THEN 0 ELSE f[n] + SumTo(f, n - 1)

RECURSIVE GCDTo(_, _)
GCDTo(f, n) == IF n = 0 THEN 0 ELSE GCD(Abs(f[n]), GCDTo(f, n - 1))

\* the array of the floats num[i]/den, over the least common denominator
Array(num, den) ==
  IF den = 0 THEN [num |-> [i \in 1..Len(num) |-> Sign(num[i])], den |-> 0]
  ELSE LET g == GCD(Abs(den), GCDTo(num, Len(num)))
       IN [num |-> [i \in 1..Len(num) |-> Sign(den) * (num[i] \div g)],
           den |-> Abs(den) \div g]

\* np.array(y): the array of the integers y
AsArray(y) == [num |-> y, den |-> 1]

ArrayFinite(v) == v.den # 0

\* v[i] as a scalar
At(v, i) == Rat(v.num[i], v.den)

\* numpy v / r (elementwise); r = 0 gives inf/nan entries, with a warning only
ArrayDiv(v, r) ==
  IF v.den = 0 \/ r.den = 0
    THEN Array(v.num, 0)
    ELSE Array([i \in 1..Len(v.num) |-> v.num[i] * r.den], v.den * r.num)

\* np.linspace(lo, lo + m - 1, m)
Linspace(lo, m) == [i \in 1..m |-> lo + i - 1]

\* ---- the numerical primitives ----
(* SplineTable(m, k): the interpolating spline of degree k through          *)
(* (0, y1), .., (m-1, ym) is linear in y.  Row t + 2 of val holds den times *)
(* the weights of s(t), row t + 2 of cum holds den times the weights of the *)
(* integral of s from 0 to t, for t = -1 .. m (t = -1 and t = m are         *)
(* extrapolated from the end pieces, as the primitive does).                *)
SplineTable(m, k) ==
  CASE m = 2 /\ k = 1 ->
      [den |-> 2,
       val |-> <<<<4, -2>>,
                 <<2, 0>>,
                 <<0, 2>>,
                 <<-2, 4>>>>,
       cum |-> <<<<-3, 1>>,
                 <<0, 0>>,
                 <<1, 1>>,
                 <<0, 4>>>>]
    [] m = 3 /\ k = 1 ->
      [den |-> 2,
       val |-> <<<<4, -2, 0>>,
                 <<2, 0, 0>>,
                 <<0, 2, 0>>,
                 <<0, 0, 2>>,
                 <<0, -2, 4>>>>,
       cum |-> <<<<-3, 1, 0>>,
                 <<0, 0, 0>>,
                 <<1, 1, 0>>,
                 <<1, 2, 1>>,
                 <<1, 1, 4>>>>]
    [] m = 3 /\ k = 2 ->
      [den |-> 12,
       val |-> <<<<36, -36, 12>>,
                 <<12, 0, 0>>,
                 <<0, 12, 0>>,
                 <<0, 0, 12>>,
                 <<12, -36, 36>>>>,
       cum |-> <<<<-23, 16, -5>>,
                 <<0, 0, 0>>,
                 <<5, 8, -1>>,
                 <<4, 16, 4>>,
                 <<9, 0, 27>>>>]
    [] m = 4 /\ k = 1 ->
      [den |-> 2,
       val |-> <<<<4, -2, 0, 0>>,
                 <<2, 0, 0, 0>>,
                 <<0, 2, 0, 0>>,
                 <<0, 0, 2, 0>>,
                 <<0, 0, 0, 2>>,
                 <<0, 0, -2, 4>>>>,
       cum |-> <<<<-3, 1, 0, 0>>,
                 <<0, 0, 0, 0>>,
                 <<1, 1, 0, 0>>,
                 <<1, 2, 1, 0>>,
                 <<1, 2, 2, 1>>,
                 <<1, 2, 1, 4>>>>]
    [] m = 4 /\ k = 2 ->
      [den |-> 72,
       val |-> <<<<228, -252, 108, -12>>,
                 <<72, 0, 0, 0>>,
                 <<0, 72, 0, 0>>,
                 <<0, 0, 72, 0>>,
                 <<0, 0, 0, 72>>,
                 <<-12, 108, -252, 228>>>>,
       cum |-> <<<<-143, 111, -45, 5>>,
                 <<0, 0, 0, 0>>,
                 <<29, 51, -9, 1>>,
                 <<26, 90, 30, -2>>,
                 <<27, 81, 81, 27>>,
                 <<22, 126, -30, 170>>>>]
    [] m = 4 /\ k = 3 ->
      [den |-> 24,
       val |-> <<<<96, -144, 96, -24>>,
                 <<24, 0, 0, 0>>,
                 <<0, 24, 0, 0>>,
                 <<0, 0, 24, 0>>,
                 <<0, 0, 0, 24>>,
                 <<-24, 96, -144, 96>>>>,
       cum |-> <<<<-55, 59, -37, 9>>,
                 <<0, 0, 0, 0>>,
                 <<9, 19, -5, 1>>,
                 <<8, 32, 8, 0>>,
                 <<9, 27, 27, 9>>,
                 <<0, 64, -32, 64>>>>]
    [] m = 5 /\ k = 1 ->
      [den |-> 2,
       val |-> <<<<4, -2, 0, 0, 0>>,
                 <<2, 0, 0, 0, 0>>,
                 <<0, 2, 0, 0, 0>>,
                 <<0, 0, 2, 0, 0>>,
                 <<0, 0, 0, 2, 0>>,
                 <<0, 0, 0, 0, 2>>,
                 <<0, 0, 0, -2, 4>>>>,
       cum |-> <<<<-3, 1, 0, 0, 0>>,
                 <<0, 0, 0, 0, 0>>,
                 <<1, 1, 0, 0, 0>>,
                 <<1, 2, 1, 0, 0>>,
                 <<1, 2, 2, 1, 0>>,
                 <<1, 2, 2, 2, 1>>,
                 <<1, 2, 2, 1, 4>>>>]
    [] m = 5 /\ k = 2 ->
      [den |-> 420,
       val |-> <<<<1332, -1488, 672, -108, 12>>,
                 <<420, 0, 0, 0, 0>>,
                 <<0, 420, 0, 0, 0>>,
                 <<0, 0, 420, 0, 0>>,
                 <<0, 0, 0, 420, 0>>,
                 <<0, 0, 0, 0, 420>>,
                 <<12, -108, 672, -1488, 1332>>>>,
       cum |-> <<<<-835, 655, -280, 45, -5>>,
                 <<0, 0, 0, 0, 0>>,
                 <<169, 299, -56, 9, -1>>,
                 <<152, 522, 182, -18, 2>>,
                 <<155, 495, 420, 205, -15>>,
                 <<154, 504, 364, 504, 154>>,
                 <<159, 459, 644, -151, 989>>>>]
    [] m = 5 /\ k = 3 ->
      [den |-> 96,
       val |-> <<<<408, -672, 528, -192, 24>>,
                 <<96, 0, 0, 0, 0>>,
                 <<0, 96, 0, 0, 0>>,
                 <<0, 0, 96, 0, 0>>,
                 <<0, 0, 0, 96, 0>>,
                 <<0, 0, 0, 0, 96>>,
                 <<24, -192, 528, -672, 408>>>>,
       cum |-> <<<<-229, 272, -202, 72, -9>>,
                 <<0, 0, 0, 0, 0>>,
                 <<35, 80, -26, 8, -1>>,
                 <<32, 128, 32, 0, 0>>,
                 <<33, 120, 90, 48, -3>>,
                 <<32, 128, 64, 128, 32>>,
                 <<41, 56, 266, -144, 261>>>>]
    [] m = 5 /\ k = 4 ->
      [den |-> 720,
       val |-> <<<<3600, -7200, 7200, -3600, 720>>,
                 <<720, 0, 0, 0, 0>>,
                 <<0, 720, 0, 0, 0>>,
                 <<0, 0, 720, 0, 0>>,
                 <<0, 0, 0, 720, 0>>,
                 <<0, 0, 0, 0, 720>>,
                 <<720, -3600, 7200, -7200, 3600>>>>,
       cum |-> <<<<-1901, 2774, -2616, 1274, -251>>,
                 <<0, 0, 0, 0, 0>>,
                 <<251, 646, -264, 106, -19>>,
                 <<232, 992, 192, 32, -8>>,
                 <<243, 918, 648, 378, -27>>,
                 <<224, 1024, 384, 1024, 224>>,
                 <<475, -250, 3000, -1750, 2125>>>>]

\* InterpolatedUnivariateSpline(x, y, k=k) succeeds only if len(x) > k
SplineFits(m, k) == k >= 1 /\ k <= 5 /\ m > k

\* InterpolatedUnivariateSpline(x, y, k=k), for len(x) > k
InterpolatedUnivariateSpline(x, y, k) == [x |-> x, y |-> y, k |-> k]

Row(s, t) == t - s.x[1] + 2

\* s(t) for an integer t in x[0]-1 .. x[-1]+1
SplineValue(s, t) ==
  IF s.y.den = 0 THEN Rat(0, 0)
  ELSE LET T == SplineTable(Len(s.x), s.k)
           w == T.val[Row(s, t)]
       IN Rat(SumTo([i \in 1..Len(s.x) |-> w[i] * s.y.num[i]], Len(s.x)),
              T.den * s.y.den)

\* den times the integral of the table's spline from x[0] to t, times y.den
CumNum(s, t) ==
  LET T == SplineTable(Len(s.x), s.k)
      w == T.cum[Row(s, t)]
  IN SumTo([i \in 1..Len(s.x) |-> w[i] * s.y.num[i]], Len(s.x))

\* quad(s, a, b)[0] for integers a, b in x[0]-1 .. x[-1]+1
quad(s, a, b) ==
  IF s.y.den = 0 THEN Rat(0, 0)
  ELSE Rat(CumNum(s, b) - CumNum(s, a), SplineTable(Len(s.x), s.k).den * s.y.den)

\* ---- __init__ ----
NoObject == [x |-> <<>>, y |-> <<>>, y_normalized |-> AsArray(<<>>),
             spline |-> InterpolatedUnivariateSpline(<<>>, AsArray(<<>>), 0)]

SplineCall(m, k) == [prim |-> "spline", m |-> m, k |-> k, a |-> 0, b |-> 0]

QuadCall(a, b) == [prim |-> "quad", m |-> 0, k |-> 0, a |-> a, b |-> b]

\* line 35: the stored spline, built at spline_order
BuildSpline(x, y, y_normalized, spline_order, calls) ==
  LET all == Append(calls, SplineCall(Len(x), spline_order))
  IN IF ~SplineFits(Len(x), spline_order)
       THEN [err |-> "PrimitiveError", obj |-> NoObject, calls |-> all]
       ELSE [err |-> "none",
             obj |-> [x |-> x, y |-> y, y_normalized |-> y_normalized,
                      spline |-> InterpolatedUnivariateSpline(x, y_normalized, spline_order)],
             calls |-> all]

\* lines 28-32: y_normalized; the area is that of the default-order spline
Normalized(x, y) ==
  LET total_area == quad(InterpolatedUnivariateSpline(x, AsArray(y), DefaultK),
                         x[1], x[Len(x)])
  IN ArrayDiv(AsArray(y), total_area)

\* variant: the two argument checks of lines 18-21 in the other order
Construct_PointsFirst(x, y, spline_order, normalize) ==
  IF Len(x) < 2
    THEN [err |-> "InsufficientPoints", obj |-> NoObject, calls |-> <<>>]
  ELSE IF Len(x) # Len(y)
    THEN [err |-> "DimensionMismatch", obj |-> NoObject, calls |-> <<>>]
  ELSE IF normalize /\ SplineFits(Len(x), DefaultK)
    THEN BuildSpline(x, y, Normalized(x, y), spline_order,
                     <<SplineCall(Len(x), DefaultK), QuadCall(x[1], x[Len(x)])>>)
  ELSE IF normalize
    THEN [err |-> "PrimitiveError", obj |-> NoObject,
          calls |-> <<SplineCall(Len(x), DefaultK)>>]
  ELSE BuildSpline(x, y, AsArray(y), spline_order, <<>>)

\* ProbabilityDensityFunction(x, y, spline_order, normalize)
Construct(x, y, spline_order, normalize) ==
  IF Len(x) # Len(y)
    THEN [err |-> "DimensionMismatch", obj |-> NoObject, calls |-> <<>>]
  ELSE IF Len(x) < 2
    THEN [err |-> "InsufficientPoints", obj |-> NoObject, calls |-> <<>>]
  ELSE IF normalize
    THEN IF ~SplineFits(Len(x), DefaultK)
           THEN [err |-> "PrimitiveError", obj |-> NoObject,
                 calls |-> <<SplineCall(Len(x), DefaultK)>>]
           ELSE BuildSpline(x, y, Normalized(x, y), spline_order,
                            <<SplineCall(Len(x), DefaultK), QuadCall(x[1], x[Len(x)])>>)
  ELSE BuildSpline(x, y, AsArray(y), spline_order, <<>>)

\* ---- inputs ----
YVals == (0 - 1)..MaxY

Arrays(m) == [1..m -> YVals]

Orders == 1..MaxOrder

Callers == 1..NumCallers

NoLocals == [num_samples |-> 0, cdf_x |-> <<>>, cdf_y |-> AsArray(<<>>),
             calls |-> <<>>]

NoResult == [caller |-> 0, op |-> "none", args |-> <<>>, err |-> "none",
             value |-> <<>>, calls |-> <<>>]

Outcome(op, args, err, value, calls) ==
  [caller |-> 0, op |-> op, args |-> args, err |-> err, value |-> value,
   calls |-> calls]

NoCtor == [x |-> <<>>, y |-> <<>>, spline_order |-> 0, normalize |-> FALSE,
           err |-> "none", calls |-> <<>>]

\* ---- evaluate ----
\* line 47: self.spline(points), no domain check
EvaluateAt(obj, point) == SplineValue(obj.spline, point)

\* ---- probability_in_interval ----
\* variant: line 61 with "and" for "or"
OutOfRange_Both(obj, a, b) == a < obj.x[1] /\ b > obj.x[Len(obj.x)]

\* line 61
OutOfRange(obj, a, b) == a < obj.x[1] \/ b > obj.x[Len(obj.x)]

\* lines 61-66
ProbabilityResult(obj, a, b) ==
  IF OutOfRange(obj, a, b)
    THEN Outcome("probability_in_interval", <<a, b>>, "IntervalOutOfRange",
                 <<>>, <<>>)
    ELSE Outcome("probability_in_interval", <<a, b>>, "none",
                 <<quad(obj.spline, a, b)>>, <<QuadCall(a, b)>>)

\* ---- sample ----
\* lines 82-83: the integral of the spline from x[0] to each point of cdf_x
CdfValues(obj, cdf_x) ==
  Array([j \in 1..Len(cdf_x) |->
           CumNum(obj.spline, cdf_x[j]) - CumNum(obj.spline, obj.x[1])],
        SplineTable(Len(obj.x), obj.spline.k).den * obj.spline.y.den)

\* variant: line 86 left out
Rescaled_Skipped(cdf_y) == cdf_y

\* line 86: cdf_y /= cdf_y[-1]
Rescaled(cdf_y) == ArrayDiv(cdf_y, At(cdf_y, Len(cdf_y.num)))

\* the nodes a degree-1 interpolating spline needs: finite, strictly increasing
StrictlyIncreasing(v) ==
  /\ ArrayFinite(v)
  /\ \A j \in 1..(Len(v.num) - 1) : v.num[j] < v.num[j + 1]

\* the piece of the degree-1 spline through (c[j], xs[j]) that serves u = p/UDen
Piece(c, p) ==
  LET below == {j \in 1..(Len(c.num) - 1) : c.num[j] * UDen <= p * c.den}
  IN IF below = {} THEN 1 ELSE CHOOSE j \in below : \A i \in below : i <= j

\* lines 89, 92 for one draw u = p/UDen: the degree-1 spline at u
InverseCdfAt(c, xs, p) ==
  LET j == Piece(c, p)
  IN Rat(xs[j] * UDen * (c.num[j + 1] - c.num[j])
           + (p * c.den - UDen * c.num[j]) * (xs[j + 1] - xs[j]),
         UDen * (c.num[j + 1] - c.num[j]))

\* what the primitive may hand back for nodes it does not support
Unreliable(xs) == {Rat(0, 0), Rat(xs[Len(xs)] + 1, 1)}

(* lines 89-92.  On nodes that are not strictly increasing the primitive    *)
(* is outside its contract: depending on the library version it raises its *)
(* own error or returns a spline whose values mean nothing.                 *)
SampleOutcomes(l, uniform_samples) ==
  LET n == l.num_samples
      all == Append(l.calls, SplineCall(Len(l.cdf_x), 1))
      ok(v) == Outcome("sample", <<n>>, "none", v, all)
  IN IF StrictlyIncreasing(l.cdf_y)
       THEN {ok([i \in 1..n |-> InverseCdfAt(l.cdf_y, l.cdf_x, uniform_samples[i])])}
       ELSE {Outcome("sample", <<n>>, "PrimitiveError", <<>>, all)}
            \cup {ok(v) : v \in [1..n -> Unreliable(l.cdf_x)]}

NoReport == [choice |-> "", level |-> "none", err |-> "none", value |-> <<>>]

Init ==
  /\ phase = "new"
  /\ self = NoObject
  /\ ctor = NoCtor
  /\ callers = {1}
  /\ pc = [c \in Callers |-> "idle"]
  /\ loc = [c \in Callers |-> NoLocals]
  /\ res = NoResult
  /\ dpc = "off"
  /\ dloc = 0
  /\ report = NoReport

Create(x, y, spline_order, normalize) ==
  /\ phase = "new"
  /\ LET r == Construct(x, y, spline_order, normalize)
     IN /\ phase' = IF r.err = "none" THEN "constructed" ELSE "failed"
        /\ self' = r.obj
        /\ ctor' = [x |-> x, y |-> y, spline_order |-> spline_order,
                    normalize |-> normalize, err |-> r.err, calls |-> r.calls]
  /\ UNCHANGED <<callers, pc, loc, res, dpc, dloc, report>>

\* integer coordinates from one below the grid to one above it
Points ==
  IF phase = "constructed" THEN (self.x[1] - 1)..(self.x[Len(self.x)] + 1) ELSE {}

\* np.random.rand(n): n draws p/UDen, given by their numerators p
Draws(n) == [1..n -> 0..(UDen - 1)]

\* a call completes: its outcome is handed to the caller that made it
Complete(c, r) ==
  /\ res' = [r EXCEPT !.caller = c]
  /\ pc' = [pc EXCEPT ![c] = "done"]

(* The outcome of a call is taken by its caller at once (Return): no other  *)
(* step comes between the two.  Return touches nothing a step of the        *)
(* program reads, so no interleaving of the program's steps is lost.        *)
Ready(c) ==
  phase = "constructed" /\ c \in callers /\ pc[c] = "idle" /\ res = NoResult

Within(c, at) == c \in callers /\ pc[c] = at /\ res = NoResult

Evaluate(c, point) ==
  /\ Ready(c)
  /\ Complete(c, Outcome("evaluate", <<point>>, "none",
                         <<EvaluateAt(self, point)>>, <<>>))
  /\ UNCHANGED <<phase, self, ctor, callers, loc, dpc, dloc, report>>

EvaluateArray(c, points) ==
  /\ Ready(c)
  /\ Complete(c, Outcome("evaluate_array", points, "none",
                         [i \in 1..Len(points) |-> EvaluateAt(self, points[i])],
                         <<>>))
  /\ UNCHANGED <<phase, self, ctor, callers, loc, dpc, dloc, report>>

ProbabilityInInterval(c, a, b) ==
  /\ Ready(c)
  /\ Complete(c, ProbabilityResult(self, a, b))
  /\ UNCHANGED <<phase, self, ctor, callers, loc, dpc, dloc, report>>

(* line 79: np.random.rand(num_samples); a negative size is refused.  The   *)
(* values drawn are not read before line 92 and are chosen there.           *)
SampleDraw(c, num_samples) ==
  /\ Ready(c)
  /\ IF num_samples < 0
       THEN /\ Complete(c, Outcome("sample", <<num_samples>>, "PrimitiveError",
                                   <<>>, <<>>))
            /\ UNCHANGED loc
       ELSE /\ pc' = [pc EXCEPT ![c] = "cdf"]
            /\ loc' = [loc EXCEPT ![c] = [NoLocals EXCEPT
                                            !.num_samples = num_samples]]
            /\ UNCHANGED res
  /\ UNCHANGED <<phase, self, ctor, callers, dpc, dloc, report>>

\* lines 82-83
SampleCdf(c) ==
  /\ Within(c, "cdf")
  /\ LET cdf_x == Linspace(self.x[1], Len(self.x))
     IN loc' = [loc EXCEPT ![c] = [@ EXCEPT
                   !.cdf_x = cdf_x,
                   !.cdf_y = CdfValues(self, cdf_x),
                   !.calls = [j \in 1..Len(cdf_x) |-> QuadCall(self.x[1], cdf_x[j])]]]
  /\ pc' = [pc EXCEPT ![c] = "rescale"]
  /\ UNCHANGED <<phase, self, ctor, callers, res, dpc, dloc, report>>

\* variant: line 86 applied to the stored array instead of a fresh one
SampleRescale_Stored(c) ==
  /\ Within(c, "rescale")
  /\ self' = [self EXCEPT !.y_normalized = Rescaled(@)]
  /\ loc' = [loc EXCEPT ![c] = [@ EXCEPT !.cdf_y = self'.y_normalized]]
  /\ pc' = [pc EXCEPT ![c] = "inverse"]
  /\ UNCHANGED <<phase, ctor, callers, res, dpc, dloc, report>>

\* line 86, in place on the local cdf_y
SampleRescale(c) ==
  /\ Within(c, "rescale")
  /\ loc' = [loc EXCEPT ![c] = [@ EXCEPT !.cdf_y = Rescaled(@)]]
  /\ pc' = [pc EXCEPT ![c] = "inverse"]
  /\ UNCHANGED <<phase, self, ctor, callers, res, dpc, dloc, report>>

\* lines 89-92, over every value the draws of line 79 can have
SampleInverse(c) ==
  /\ Within(c, "inverse")
  /\ \E r \in UNION {SampleOutcomes(loc[c], u) : u \in Draws(loc[c].num_samples)} :
       Complete(c, r)
  /\ loc' = [loc EXCEPT ![c] = NoLocals]
  /\ UNCHANGED <<phase, self, ctor, callers, dpc, dloc, report>>

\* the call returns (or raises) to its caller, which takes the outcome
Return(c) ==
  /\ c \in callers /\ pc[c] = "done" /\ res.caller = c
  /\ pc' = [pc EXCEPT ![c] = "idle"]
  /\ res' = NoResult
  /\ UNCHANGED <<phase, self, ctor, callers, loc, dpc, dloc, report>>

Counts == (0 - 1)..MaxCount

Api ==
  \E c \in Callers :
    \/ \E p \in Points : Evaluate(c, p)
    \/ \E p \in Points : p + 1 \in Points /\ EvaluateArray(c, <<p, p + 1>>)
    \/ \E a, b \in Points : ProbabilityInInterval(c, a, b)
    \/ \E n \in Counts : SampleDraw(c, n)
    \/ SampleCdf(c)
    \/ SampleRescale(c)
    \/ SampleInverse(c)
    \/ Return(c)

Next ==
  \/ /\ phase = "new"
     /\ \E lx \in 0..MaxLen, ly \in 0..MaxLen :
          \E y \in Arrays(ly), k \in Orders, n \in BOOLEAN :
            Create(Linspace(0, lx), y, k, n)
  \/ Api

Spec == Init /\ [][Next]_vars


\* ---- one instance shared by several callers ----
SharedInputs ==
  {[y |-> <<1, 1, 1, 1>>, spline_order |-> 3, normalize |-> TRUE],
   [y |-> <<1, 0, 0, 1>>, spline_order |-> 1, normalize |-> FALSE],
   [y |-> <<0, 0, 0, 0>>, spline_order |-> 3, normalize |-> TRUE]}

InitConc ==
  /\ \E i \in SharedInputs :
       LET x == Linspace(0, Len(i.y))
           r == Construct(x, i.y, i.spline_order, i.normalize)
       IN /\ self = r.obj
          /\ ctor = [x |-> x, y |-> i.y, spline_order |-> i.spline_order,
                     normalize |-> i.normalize, err |-> r.err, calls |-> r.calls]
  /\ phase = "constructed"
  /\ callers = Callers
  /\ pc = [c \in Callers |-> "idle"]
  /\ loc = [c \in Callers |-> NoLocals]
  /\ res = NoResult
  /\ dpc = "off"
  /\ dloc = 0
  /\ report = NoReport

NextConc == Api

SpecConc == InitConc /\ [][NextConc]_vars

\* ---- the interactive driver (lines 95-142) ----
SplineOrderDefault == 3

\* stands for x = linspace(0, 10, 100), y = exp(-(x - 5)**2 / 2): positive, one peak
DriverX == Linspace(0, DriverPoints)

DriverY == [i \in 1..DriverPoints |->
              1 + (IF i - 1 < DriverPoints - i THEN i - 1 ELSE DriverPoints - i)]

\* a typed line: ok if float() / int() accepts it, with the number it denotes
Typed(S) == {[ok |-> TRUE, v |-> n] : n \in S} \cup {[ok |-> FALSE, v |-> 0]}

RatAdd(r, s) ==
  IF r.den = 0 \/ s.den = 0 THEN Rat(0, 0)
  ELSE Rat(r.num * s.den + s.num * r.den, r.den * s.den)

RECURSIVE RatSum(_, _)
RatSum(v, n) == IF n = 0 THEN Rat(0, 1) ELSE RatAdd(v[n], RatSum(v, n - 1))

\* np.mean(samples); the mean of no samples is nan
Mean(v) ==
  LET s == RatSum(v, Len(v))
  IN IF Len(v) = 0 \/ s.den = 0 THEN Rat(0, 0) ELSE Rat(s.num, s.den * Len(v))

\* pdf.sample(num_samples) as one call, for num_samples >= 0
SampleCall(obj, num_samples, uniform_samples) ==
  LET cdf_x == Linspace(obj.x[1], Len(obj.x))
  IN SampleOutcomes([num_samples |-> num_samples,
                     cdf_x |-> cdf_x,
                     cdf_y |-> Rescaled(CdfValues(obj, cdf_x)),
                     calls |-> [j \in 1..Len(cdf_x) |->
                                  QuadCall(obj.x[1], cdf_x[j])]],
                    uniform_samples)

InitDriver ==
  /\ LET r == Construct(DriverX, DriverY, SplineOrderDefault, TRUE)
     IN /\ self = r.obj
        /\ ctor = [x |-> DriverX, y |-> DriverY, spline_order |-> SplineOrderDefault,
                   normalize |-> TRUE, err |-> r.err, calls |-> r.calls]
        /\ phase = IF r.err = "none" THEN "constructed" ELSE "failed"
        /\ dpc = IF r.err = "none" THEN "menu" ELSE "crashed"
  /\ callers = {}
  /\ pc = [c \in Callers |-> "idle"]
  /\ loc = [c \in Callers |-> NoLocals]
  /\ res = NoResult
  /\ dloc = 0
  /\ report = NoReport

\* an uncaught exception ends the program with a traceback
Crash(choice, err) ==
  /\ dpc' = "crashed"
  /\ report' = [choice |-> choice, level |-> "traceback", err |-> err, value |-> <<>>]

\* lines 112-140: the choice is read and dispatched
DriverChoose(choice) ==
  /\ dpc = "menu"
  /\ IF choice = "1" THEN dpc' = "read_point" /\ UNCHANGED report
     ELSE IF choice = "2" THEN dpc' = "read_a" /\ UNCHANGED report
     ELSE IF choice = "3" THEN dpc' = "read_n" /\ UNCHANGED report
     ELSE IF choice = "4"
       THEN /\ dpc' = "exited"
            /\ report' = [choice |-> "4", level |-> "info", err |-> "none",
                          value |-> <<>>]
       ELSE /\ dpc' = "menu"
            /\ report' = [choice |-> choice, level |-> "warning", err |-> "none",
                          value |-> <<>>]
  /\ UNCHANGED <<phase, self, ctor, callers, pc, loc, res, dloc>>

\* lines 115-117
DriverReadPoint(t) ==
  /\ dpc = "read_point"
  /\ IF ~t.ok THEN Crash("1", "ValueError")
     ELSE /\ dpc' = "menu"
          /\ report' = [choice |-> "1", level |-> "info", err |-> "none",
                        value |-> <<EvaluateAt(self, t.v)>>]
  /\ UNCHANGED <<phase, self, ctor, callers, pc, loc, res, dloc>>

\* line 120
DriverReadA(t) ==
  /\ dpc = "read_a"
  /\ IF ~t.ok THEN Crash("2", "ValueError") /\ UNCHANGED dloc
     ELSE dpc' = "read_b" /\ dloc' = t.v /\ UNCHANGED report
  /\ UNCHANGED <<phase, self, ctor, callers, pc, loc, res>>

\* lines 121-126: only the call is inside the try
DriverReadB(t) ==
  /\ dpc = "read_b"
  /\ IF ~t.ok THEN Crash("2", "ValueError")
     ELSE LET r == ProbabilityResult(self, dloc, t.v)
          IN /\ dpc' = "menu"
             /\ report' = [choice |-> "2",
                           level |-> IF r.err = "none" THEN "info" ELSE "error",
                           err |-> r.err, value |-> r.value]
  /\ dloc' = 0
  /\ UNCHANGED <<phase, self, ctor, callers, pc, loc, res>>

\* lines 129-133; the standard deviation is logged next to the mean
DriverReadN(t, uniform_samples) ==
  /\ dpc = "read_n"
  /\ IF ~t.ok THEN Crash("3", "ValueError")
     ELSE IF t.v < 0 THEN Crash("3", "PrimitiveError")
     ELSE \E r \in SampleCall(self, t.v, uniform_samples) :
            IF r.err # "none" THEN Crash("3", r.err)
            ELSE /\ dpc' = "menu"
                 /\ report' = [choice |-> "3", level |-> "success", err |-> "none",
                               value |-> <<Mean(r.value)>>]
  /\ UNCHANGED <<phase, self, ctor, callers, pc, loc, res, dloc>>

Choices == {"1", "2", "3", "4", "5", ""}

NextDriver ==
  \/ \E choice \in Choices : DriverChoose(choice)
  \/ \E t \in Typed(Points) : DriverReadPoint(t)
  \/ \E t \in Typed(Points) : DriverReadA(t)
  \/ \E t \in Typed(Points) : DriverReadB(t)
  \/ \E t \in Typed(Counts) :
       \E u \in Draws(IF t.ok /\ t.v > 0 THEN t.v ELSE 0) : DriverReadN(t, u)

SpecDriver == InitDriver /\ [][NextDriver]_vars

\* ---- properties ----
First(obj) == obj.x[1]

Last(obj) == obj.x[Len(obj.x)]

InDomain(obj, r) == RatLe(Rat(First(obj), 1), r) /\ RatLe(r, Rat(Last(obj), 1))

\* |r - 1| <= 1e-6
WithinTol(r) ==
  /\ IsFinite(r)
  /\ \/ r.num = r.den
     \/ Abs(r.num - r.den) < 2000 /\ Abs(r.num - r.den) * 1000000 <= r.den

\* 1 <= order <= min(5, len(x) - 1)
Permitted(order, m) == 1 <= order /\ order <= 5 /\ order <= m - 1

Done(op) == res.op = op

\* C1: construction with len(x) # len(y) fails with DimensionMismatch, and
\* with equal lengths below 2 with InsufficientPoints; either way no spline
\* was built, no integral was taken and there is no instance.
C1_ArgumentChecks ==
  phase # "new" =>
    /\ Len(ctor.x) # Len(ctor.y) =>
         /\ ctor.err = "DimensionMismatch"
         /\ ctor.calls = <<>> /\ phase = "failed" /\ self = NoObject
    /\ Len(ctor.x) = Len(ctor.y) /\ Len(ctor.x) < 2 =>
         /\ ctor.err = "InsufficientPoints"
         /\ ctor.calls = <<>> /\ phase = "failed" /\ self = NoObject

\* a single x against two y: both checks would object, the length check wins
C1_Witness ==
  /\ phase = "failed" /\ ctor.err = "DimensionMismatch"
  /\ Len(ctor.x) = 1 /\ Len(ctor.y) = 2

C1_WitnessPoints ==
  /\ phase = "failed" /\ ctor.err = "InsufficientPoints"
  /\ Len(ctor.x) = 1 /\ Len(ctor.y) = 1

\* C2: probability_in_interval(a, b) fails with IntervalOutOfRange exactly
\* when a < x[0] or b > x[-1], before quad is called; otherwise it returns
\* the integral of the stored spline from a to b.
C2_RangeCheck ==
  Done("probability_in_interval") =>
    LET a == res.args[1]
        b == res.args[2]
    IN IF a < First(self) \/ b > Last(self)
         THEN /\ res.err = "IntervalOutOfRange"
              /\ res.calls = <<>> /\ res.value = <<>>
         ELSE /\ res.err = "none"
              /\ res.calls = <<QuadCall(a, b)>>
              /\ res.value = <<quad(self.spline, a, b)>>

\* the spec's scenario: the start is below the grid, the end is inside it
C2_Witness ==
  /\ Done("probability_in_interval")
  /\ res.args[1] < First(self) /\ res.args[2] < Last(self)
  /\ res.args[2] > First(self)
  /\ res.err = "IntervalOutOfRange"

C2_WitnessInside ==
  /\ Done("probability_in_interval")
  /\ res.args = <<First(self), Last(self)>> /\ res.err = "none"
  /\ ctor.normalize /\ res.value = <<Rat(1, 1)>>

\* C3: every probability_in_interval(a, b) that reaches quad has both a and b
\* inside [x[0], x[-1]], reversed intervals included.
C3_NoExtrapolatedIntegration ==
  Done("probability_in_interval") /\ res.calls # <<>> =>
    /\ First(self) <= res.args[1] /\ res.args[1] <= Last(self)
    /\ First(self) <= res.args[2] /\ res.args[2] <= Last(self)

\* C4: with normalize true and a zero area of the raw interpolant,
\* construction fails with DegenerateDensity; no instance ever holds a
\* non-finite y_normalized.
C4_ZeroAreaRejected ==
  /\ phase = "constructed" => ArrayFinite(self.y_normalized)
  /\ /\ phase # "new" /\ ctor.normalize
     /\ Len(ctor.x) = Len(ctor.y) /\ SplineFits(Len(ctor.x), DefaultK)
     /\ quad(InterpolatedUnivariateSpline(ctor.x, AsArray(ctor.y), DefaultK),
             ctor.x[1], ctor.x[Len(ctor.x)]).num = 0
     => ctor.err = "DegenerateDensity"

\* C5: sample signals DegenerateDensity whenever the cumulative values at the
\* grid points are not strictly increasing, and returns no samples then.
C5_DegenerateCdfSignalled ==
  /\ Done("sample") /\ res.args[1] >= 0
  /\ ~StrictlyIncreasing(CdfValues(self, Linspace(First(self), Len(self.x))))
  => res.err = "DegenerateDensity" /\ res.value = <<>>

\* C6: no step of evaluate, probability_in_interval or sample, by any caller
\* and in any interleaving, failing calls included, changes x, y,
\* y_normalized or the spline of the instance.
C6_Immutable == [][phase = "constructed" => self' = self]_vars

\* one caller is past the in-place rescaling while the other's call has failed
C6_Witness ==
  /\ pc[1] = "inverse" /\ pc[2] = "done"
  /\ res.caller = 2 /\ res.err = "IntervalOutOfRange"
  /\ self.y_normalized # loc[1].cdf_y

\* C7: after construction with normalize true and a permitted order, the
\* stored spline integrates to 1.0 over [x[0], x[-1]] within tolerance.
C7_NormalizedToOne ==
  /\ phase = "constructed" /\ ctor.normalize
  /\ Permitted(ctor.spline_order, Len(ctor.x))
  /\ ArrayFinite(self.y_normalized)
  => WithinTol(quad(self.spline, First(self), Last(self)))

\* C8: on an instance whose CDF is strictly increasing, sample(N) with N >= 1
\* returns exactly N values, each finite and inside [x[0], x[-1]].
C8_SamplesInDomain ==
  /\ Done("sample") /\ res.args[1] >= 1
  /\ StrictlyIncreasing(CdfValues(self, Linspace(First(self), Len(self.x))))
  => /\ res.err = "none"
     /\ Len(res.value) = res.args[1]
     /\ \A i \in 1..Len(res.value) :
          IsFinite(res.value[i]) /\ InDomain(self, res.value[i])

\* two draws that land on different points strictly inside the grid
C8_Witness ==
  /\ Done("sample") /\ res.args = <<2>> /\ res.err = "none"
  /\ StrictlyIncreasing(CdfValues(self, Linspace(First(self), Len(self.x))))
  /\ RatLt(Rat(First(self), 1), res.value[1])
  /\ RatLt(res.value[1], res.value[2])
  /\ res.value[1].den > 1

\* C9: construction succeeds for equal lengths >= 2, a non-zero area and a
\* permitted order, normalize true or false, and every spline the
\* constructor builds has an order below len(x).
C9_PermittedOrdersConstruct ==
  /\ phase # "new"
  /\ Len(ctor.x) = Len(ctor.y) /\ Len(ctor.x) >= 2
  /\ Permitted(ctor.spline_order, Len(ctor.x))
  /\ quad(InterpolatedUnivariateSpline(ctor.x, AsArray(ctor.y), ctor.spline_order),
          ctor.x[1], ctor.x[Len(ctor.x)]).num # 0
  => /\ phase = "constructed"
     /\ \A i \in 1..Len(ctor.calls) :
          ctor.calls[i].prim = "spline" => ctor.calls[i].m > ctor.calls[i].k

\* C10: a failed interval request is logged as an error without a value, and
\* the menu loop ends only when '4' is entered.
C10_LoopEndsOnlyOnExit ==
  /\ report.choice = "2" /\ report.err = "IntervalOutOfRange" =>
       report.level = "error" /\ report.value = <<>>
  /\ dpc \notin {"menu", "read_point", "read_a", "read_b", "read_n"} =>
       dpc = "exited" /\ report.choice = "4"

\* the part of C10 that the driver does satisfy: after an out-of-range
\* request the error is logged, no value is, and the menu is back with the
\* same instance
DriverReportsRangeError ==
  [][dpc = "read_b" /\ dpc' = "menu" /\ report'.err # "none" =>
       /\ report'.err = "IntervalOutOfRange" /\ report'.level = "error"
       /\ report'.value = <<>> /\ self' = self]_vars

DriverRangeErrorSeen ==
  dpc = "menu" /\ report.choice = "2" /\ report.err = "IntervalOutOfRange"

====
